---- MODULE Spec2Model ----
(***************************************************************************)
(* Model of the GENEA_2020 training harness:                               *)
(*   tools/trainer.py   MotionTrainer (early stopping and checkpointing)   *)
(*   tools/datasets.py  MotionDataset / SpeechMotionDataset (collation)    *)
(*   Seq2Seq/system.py  AdversarialSeq2SeqSystem (two-optimizer training)  *)
(***************************************************************************)
EXTENDS Integers, Sequences, FiniteSets, TLC

\* ------------------------------------------------------------------ bounds
MaxCalls == 2      \* train() calls made on one trainer
MaxEpochs == 2     \* largest num_epoches passed to train()
MaxPatience == 1   \* largest patience passed to train()
MaxBatches == 2    \* largest number of batches an iterator yields
MaxBatchSize == 2  \* largest number of examples in a batch given to collate_fn
MaxDim == 2        \* largest size of a dimension of an example tensor
MaxTerm == 1       \* largest value of a loss term of a batch
MaxFiles == 2      \* largest number of data files of a SpeechMotionDataset
MaxRows == 3       \* largest number of rows of an array of a data file

\* Per-batch finite loss values the criterion is sampled at.
LossSamples == {0, 1}

\* ------------------------------------------------------------- float values
\* A Python float restricted to the values a loss can take: a non-negative
\* rational n/d in lowest terms, +inf, or NaN.
Fin(n, d) == [k |-> "fin", n |-> n, d |-> d]
Inf == [k |-> "inf", n |-> 0, d |-> 1]
NaN == [k |-> "nan", n |-> 0, d |-> 1]

RECURSIVE Gcd(_, _)
Gcd(a, b) == IF b = 0 THEN a ELSE Gcd(b, a % b)

Norm(n, d) == LET g == Gcd(n, d) IN Fin(n \div g, d \div g)

\* a + b (total_loss += loss.item())
FAdd(a, b) ==
    IF a.k = "nan" \/ b.k = "nan" THEN NaN
    ELSE IF a.k = "inf" \/ b.k = "inf" THEN Inf
    ELSE Norm(a.n * b.d + b.n * a.d, a.d * b.d)

\* a / n  for an int n > 0 (total_loss / len(self.test_iterator), n # 0)
FDivLen(a, n) ==
    IF a.k = "fin" THEN Norm(a.n, a.d * n) ELSE a

\* a < b on floats: every comparison with NaN is False
FLt(a, b) ==
    IF a.k = "nan" \/ b.k = "nan" THEN FALSE
    ELSE IF a.k = "inf" THEN FALSE
    ELSE IF b.k = "inf" THEN TRUE
    ELSE a.n * b.d < b.n * a.d

\* a <= b on floats
FLe(a, b) == FLt(a, b) \/ (a.k # "nan" /\ a = b)

\* The minimum of the losses of S that are below infinity; Inf if there is none
MinOf(S) ==
    LET below == {x \in S : FLt(x, Inf)} IN
    IF below = {} THEN Inf
    ELSE CHOOSE m \in below : \A x \in below : FLe(m, x)

BatchLoss == {Fin(v, 1) : v \in LossSamples} \cup {Inf, NaN}

RECURSIVE SumLosses(_, _)
\* total_loss after the loop of test_epoch over the batch losses ls[1..i]
SumLosses(ls, i) == IF i = 0 THEN Fin(0, 1) ELSE FAdd(SumLosses(ls, i - 1), ls[i])

\* ------------------------------------------------------------------- state
FileNames == {"best.pt", "other.pt"}
NoFile == -1

VARIABLES
    \* MotionTrainer
    pc,            \* position of train(): "idle", "loop" or "patience"
    calls,         \* number of train() calls started
    model,         \* model parameters: number of optimizer steps applied
    model_name,    \* self.model_name
    best_loss,     \* self.best_loss
    best_epoch,    \* self.best_epoch
    n_train,       \* number of batches self.train_iterator yields
    n_test,        \* len(self.test_iterator)
    num_epoches,   \* argument of the current call
    patience,      \* argument of the current call
    epoch,         \* loop variable of train()
    test_loss,     \* local of train()
    outcome,       \* how the last call ended
    fs,            \* file system: file name -> saved state_dict or NoFile
    saved,         \* whether the last epoch called torch.save
    \* history (observations, not program state)
    least,         \* the least loss test_epoch has returned (Inf: none below inf)
    log,           \* measurements: [call, epoch, loss, model] of epochs measured
    stale,         \* consecutive epochs of this call, up to the last one, whose
                   \* test loss was not strictly below best_loss
    entry          \* best_loss, best_epoch, fs at entry of the current call

    ,
    \* collate_fn of the datasets
    c_dataset,     \* the dataset class whose collate_fn is used
    c_batch,       \* the examples fetched for the batch: <<[x, y], ...>>
    c_result,      \* what collate_fn returned or raised
    \* AdversarialSeq2SeqSystem under the training loop
    a_batch_nb,    \* training batches completed
    a_opt_idx,     \* optimizer_idx of the next training_step of the batch
    a_params,      \* module -> number of updates of its parameters
    a_grad,        \* module -> state of the .grad of its parameters
    a_step,        \* the last training_step / validation_step and its result
    a_log,         \* the steps of the current (or just completed) batch
    a_updates,     \* optimizer -> number of its step() calls
    \* SpeechMotionDataset
    d_files,       \* data_files: per file the numbers of rows of X and of Y
    d_status,      \* how construction ended
    d_X,           \* self.X: each row named by its file and row there
    d_Y,           \* self.Y
    d_item         \* the last __getitem__ and its result

trainerVars == <<pc, calls, model, model_name, best_loss, best_epoch, n_train, n_test,
                 num_epoches, patience, epoch, test_loss, outcome, fs, saved,
                 least, log, stale, entry>>
collateVars == <<c_dataset, c_batch, c_result>>
advVars == <<a_batch_nb, a_opt_idx, a_params, a_grad, a_step, a_log, a_updates>>
dataVars == <<d_files, d_status, d_X, d_Y, d_item>>

vars == <<trainerVars, collateVars, advVars, dataVars>>

notTrainer == <<collateVars, advVars, dataVars>>
notCollate == <<trainerVars, advVars, dataVars>>
notAdv == <<trainerVars, collateVars, dataVars>>
notData == <<trainerVars, collateVars, advVars>>

\* A part of the program that a specification does not exercise stays as it
\* is before anything is constructed.
NoTensor == [shape |-> <<>>, data |-> <<>>]
NoResult == [status |-> "none", input |-> NoTensor, output |-> NoTensor]

TrainerIdle ==
    /\ pc = "none"
    /\ calls = 0
    /\ model = 0
    /\ model_name = "none"
    /\ best_loss = Inf
    /\ best_epoch = 0
    /\ n_train = 0
    /\ n_test = 0
    /\ num_epoches = 0
    /\ patience = 0
    /\ epoch = 0
    /\ test_loss = Inf
    /\ outcome = "none"
    /\ fs = [f \in FileNames |-> NoFile]
    /\ saved = FALSE
    /\ least = Inf
    /\ log = {}
    /\ stale = 0
    /\ entry = [best_loss |-> Inf, best_epoch |-> 0, fs |-> [f \in FileNames |-> NoFile]]

CollateIdle ==
    /\ c_dataset = "none"
    /\ c_batch = <<>>
    /\ c_result = NoResult

Modules == {"encoder", "decoder", "discriminator"}
NoTerms == [base |-> 0, cont |-> 0, adv |-> 0, real |-> 0, fake |-> 0]
NoStep == [kind |-> "none", optimizer_idx |-> 0, terms |-> NoTerms, loss |-> 0]

AdvIdle ==
    /\ a_batch_nb = 0
    /\ a_opt_idx = 0
    /\ a_params = [m \in Modules |-> 0]
    /\ a_grad = [m \in Modules |-> "None"]
    /\ a_step = NoStep
    /\ a_log = <<>>
    /\ a_updates = <<0, 0>>

NoRow == [file |-> 0, row |-> 0]
NoItem == [index |-> 0, x |-> NoRow, y |-> NoRow, called |-> FALSE]

DataIdle ==
    /\ d_files = <<>>
    /\ d_status = "none"
    /\ d_X = <<>>
    /\ d_Y = <<>>
    /\ d_item = NoItem

\* MotionTrainer.__init__
TrainerInit ==
    /\ pc = "idle"
    /\ calls = 0
    /\ model = 0
    /\ model_name = "best.pt"
    /\ best_loss = Inf
    /\ best_epoch = 0
    /\ n_train \in 0..MaxBatches
    /\ n_test \in 0..MaxBatches
    /\ num_epoches = 0
    /\ patience = 0
    /\ epoch = 0
    /\ test_loss = Inf
    /\ outcome = "none"
    /\ fs = [f \in FileNames |-> NoFile]
    /\ saved = FALSE
    /\ least = Inf
    /\ log = {}
    /\ stale = 0
    /\ entry = [best_loss |-> Inf, best_epoch |-> 0, fs |-> [f \in FileNames |-> NoFile]]

\* Variants of the comparison: "not (best_loss <= test_loss)", which a NaN
\* passes, and "test_loss <= best_loss", which a tie passes
ImprovesUnlessWorse(t, b) == ~FLe(b, t)
ImprovesOrTies(t, b) == FLe(t, b)

\* test_loss < self.best_loss
Improves(t, b) == FLt(t, b)

\* epoch - self.best_epoch > patience
ExitByPatience(e, be, p) == e - be > p

\* Parameters after train_epoch: one optimizer step per training batch
train_epoch(m, n) == m + n

\* The losses test_epoch can return over n > 0 batches: the mean of the
\* batch losses
MeanLosses ==
    [n \in 1..MaxBatches |->
        {FDivLen(SumLosses(ls, n), n) : ls \in [1..n -> BatchLoss]}]

\* The exception of total_loss / len(self.test_iterator) for an empty iterator
ZeroDivisionError == [k |-> "ZeroDivisionError", n |-> 0, d |-> 1]

\* A variant of test_epoch that guards the division: total_loss / max(len, 1)
test_epoch_guarded(n) == IF n = 0 THEN {Fin(0, 1)} ELSE MeanLosses[n]

\* The results test_epoch can have over n batches: the mean of the batch
\* losses, or the ZeroDivisionError of 0 / 0
test_epoch(n) == IF n = 0 THEN {ZeroDivisionError} ELSE MeanLosses[n]

\* The log after the measurement r: the measurements of the epoch numbered
\* be (the new best_epoch) are kept, older ones of other epochs are dropped.
Measured(lg, r, be) == {x \in lg \cup {r} : x.epoch = be}

\* A caller invokes train(num_epoches, patience).  range(0) is empty: the
\* call returns at once.
TrainCall ==
    /\ pc = "idle"
    /\ calls < MaxCalls
    /\ calls' = calls + 1
    /\ num_epoches' \in 0..MaxEpochs
    /\ patience' \in 0..MaxPatience
    /\ epoch' = 0
    /\ entry' = [best_loss |-> best_loss, best_epoch |-> best_epoch, fs |-> fs]
    /\ saved' = FALSE
    /\ stale' = 0
    /\ IF num_epoches' = 0
       THEN pc' = "idle" /\ outcome' = "completed"
       ELSE pc' = "loop" /\ outcome' = "running"
    /\ UNCHANGED <<model, model_name, best_loss, best_epoch, n_train, n_test, test_loss,
                   fs, least, log>>
    /\ UNCHANGED notTrainer

\* One iteration of the loop of train() up to the patience check:
\* train_epoch, test_epoch (ZeroDivisionError without test batches, which
\* train() does not catch), then the comparison with best_loss and the save.
Epoch ==
    /\ pc = "loop"
    /\ model' = train_epoch(model, n_train)
    /\ \E loss \in test_epoch(n_test) :
          IF loss = ZeroDivisionError
          THEN /\ pc' = "idle"
               /\ outcome' = "ZeroDivisionError"
               /\ saved' = FALSE
               /\ UNCHANGED <<test_loss, least, log, stale, best_loss, best_epoch, fs>>
          ELSE /\ test_loss' = loss
               /\ least' = MinOf({least, loss})
               /\ stale' = IF FLt(loss, best_loss) THEN 0 ELSE stale + 1
               /\ IF Improves(loss, best_loss)
                  THEN /\ best_loss' = loss
                       /\ best_epoch' = epoch
                       /\ fs' = [fs EXCEPT ![model_name] = model']
                       /\ saved' = TRUE
                  ELSE /\ saved' = FALSE
                       /\ UNCHANGED <<best_loss, best_epoch, fs>>
               /\ log' = Measured(log, [call |-> calls, epoch |-> epoch,
                                         loss |-> loss, model |-> model'],
                                   best_epoch')
               /\ pc' = "patience"
               /\ UNCHANGED outcome
    /\ UNCHANGED <<calls, model_name, n_train, n_test, num_epoches, patience,
                   epoch, entry>>
    /\ UNCHANGED notTrainer

\* if epoch - self.best_epoch > patience: break; otherwise the next value of
\* range(num_epoches), or the end of the loop
patience_check ==
    /\ pc = "patience"
    /\ IF ExitByPatience(epoch, best_epoch, patience)
       THEN /\ pc' = "idle"
            /\ outcome' = "patience"
            /\ UNCHANGED epoch
       ELSE /\ epoch' = epoch + 1
            /\ IF epoch + 1 < num_epoches
               THEN pc' = "loop" /\ UNCHANGED outcome
               ELSE pc' = "idle" /\ outcome' = "completed"
    /\ UNCHANGED <<calls, model, model_name, best_loss, best_epoch, n_train, n_test,
                   num_epoches, patience, test_loss, fs, saved, least, log, stale, entry>>
    /\ UNCHANGED notTrainer

Init == TrainerInit /\ CollateIdle /\ AdvIdle /\ DataIdle

Next ==
    \/ TrainCall
    \/ Epoch
    \/ patience_check

Spec == Init /\ [][Next]_vars

\* ------------------------------------------------------- MotionTrainer claims
Checkpoint == fs[model_name]

\* C1 (as stated): on a freshly constructed trainer, train exits by patience
\* immediately after the (patience+1)-th consecutive epoch whose test loss did
\* not strictly improve on best_loss and never earlier, and otherwise runs
\* exactly num_epoches epochs, for every sequence of test losses.
C1_ExitsAfterPatiencePlusOne ==
    calls = 1 =>
        /\ (outcome = "patience" => stale = patience + 1)
        /\ (pc = "loop" => stale <= patience)
        /\ (outcome = "completed" => epoch = num_epoches /\ stale <= patience)

\* C2: an epoch writes the checkpoint if and only if its test loss is strictly
\* below best_loss; an existing checkpoint holds the parameters measured at
\* the end of epoch best_epoch with loss best_loss; nothing but that save
\* writes a file.
C2_SavedIffStrictlyBetter ==
    pc = "loop" /\ pc' = "patience" => (saved' <=> FLt(test_loss', best_loss))

C2_CheckpointIsBest ==
    Checkpoint # NoFile =>
        \E r \in log : /\ r.epoch = best_epoch
                       /\ r.loss = best_loss
                       /\ r.model = Checkpoint

C2_OnlySaveWrites ==
    /\ saved' /\ pc = "loop" => fs' = [fs EXCEPT ![model_name] = model']
    /\ fs' # fs => saved' /\ pc = "loop"

C2_Checkpointing ==
    /\ []C2_CheckpointIsBest
    /\ [][C2_SavedIffStrictlyBetter /\ C2_OnlySaveWrites]_vars

\* C2 witness: in a second call, an epoch tied with best_loss after further
\* training, and the checkpoint of the earlier best epoch was kept.
C2_Witness ==
    /\ calls = 2
    /\ pc = "patience"
    /\ ~saved
    /\ test_loss = best_loss
    /\ Checkpoint # NoFile
    /\ Checkpoint # model

\* C3: after every epoch best_loss is the minimum of all the test losses
\* test_epoch has returned over the lifetime of the trainer (infinity if none
\* was below infinity), and best_loss never increases.
C3_BestLossIsMinimum ==
    /\ [](best_loss = least)
    /\ [][FLe(best_loss', best_loss)]_vars

\* C3 witness: a second call in which an epoch returned NaN after a finite
\* best loss had been reached.
C3_Witness ==
    /\ calls = 2
    /\ pc = "patience"
    /\ test_loss = NaN
    /\ best_loss.k = "fin"
    /\ entry.best_loss # best_loss

\* C8: with a test iterator that yields no batches, train ends in the first
\* epoch with the ZeroDivisionError of test_epoch and in no other way; at that
\* moment no checkpoint has been written and best_loss and best_epoch are as
\* they were before the call.
C8_EmptyTestIterator ==
    /\ outcome = "ZeroDivisionError" =>
          /\ n_test = 0
          /\ epoch = 0
          /\ ~saved
          /\ fs = entry.fs
          /\ best_loss = entry.best_loss
          /\ best_epoch = entry.best_epoch
    /\ n_test = 0 =>
          /\ pc # "patience"
          /\ outcome # "patience"
          /\ (outcome = "completed" => num_epoches = 0)
          /\ (pc = "loop" => epoch = 0)

\* C8 witness: the error was raised after train_epoch had updated the model.
C8_Witness ==
    /\ outcome = "ZeroDivisionError"
    /\ pc = "idle"
    /\ model > 0
    /\ num_epoches > 1

\* C9 (as stated): over any sequence of train calls, at every patience check
\* best_epoch is an epoch index of the current call, 0 <= best_epoch <= epoch,
\* (from which the claim derives that a later call also exits by patience
\* once more than patience epochs of that call passed without improvement).
C9_BestEpochOfCurrentCall ==
    pc = "patience" => 0 <= best_epoch /\ best_epoch <= epoch

\* =================================================== tools/datasets.py: collate
\* A tensor is its shape and its elements in row-major order.  Elements are
\* numbers on a grid of which float32 holds every second point.
Uninit == -1

RECURSIVE Prod(_)
Prod(sh) == IF sh = <<>> THEN 1 ELSE sh[1] * Prod(Tail(sh))

\* dtype=torch.float: the float32 nearest below
ToFloat32(v) == 2 * (v \div 2)

\* torch.empty(shape, dtype=torch.float): elements not initialised
Empty(sh) == [shape |-> sh, data |-> [p \in 1..Prod(sh) |-> Uninit]]

\* The index tuple (1-based) of the p-th element of a tensor of shape sh
Unflat(p, sh) ==
    [j \in 1..Len(sh) |-> (((p - 1) \div Prod(SubSeq(sh, j + 1, Len(sh)))) % sh[j]) + 1]

\* The position of the element with index tuple idx in a tensor of shape sh
RECURSIVE Flat(_, _)
Flat(idx, sh) ==
    IF sh = <<>> THEN 1
    ELSE (idx[1] - 1) * Prod(Tail(sh)) + Flat(Tail(idx), Tail(sh))

\* Tensor setitem drops the leading dimensions of size 1 of the value ...
RECURSIVE StripOnes(_)
StripOnes(sh) == IF sh # <<>> /\ sh[1] = 1 THEN StripOnes(Tail(sh)) ELSE sh

\* ... and then expands it to the shape of the target: each dimension,
\* aligned from the right, is the target's or 1
Expandable(S, T) ==
    /\ Len(S) <= Len(T)
    /\ \A j \in 1..Len(S) : S[j] = T[j + Len(T) - Len(S)] \/ S[j] = 1

\* The element of src that lands at position p of a target of shape T
ExpandedAt(src, T, p) ==
    LET S == StripOnes(src.shape)
        k == Len(T) - Len(S)
        tidx == Unflat(p, T)
        sidx == [j \in 1..Len(S) |-> IF S[j] = 1 THEN 1 ELSE tidx[j + k]]
    IN src.data[Flat(sidx, S)]

RowShape(t) == Tail(t.shape)

\* Whether t[i] = src succeeds; it raises RuntimeError otherwise
CanSetRow(t, src) ==
    src.shape = RowShape(t) \/ Expandable(StripOnes(src.shape), RowShape(t))

\* A variant of the row assignment that always writes the first row
SetRowFirst(t, i, src) ==
    LET n == Prod(RowShape(t)) IN
    [t EXCEPT !.data = [p \in 1..Prod(t.shape) |->
        IF ((p - 1) \div n) + 1 = 1
        THEN ToFloat32(ExpandedAt(src, RowShape(t), ((p - 1) % n) + 1))
        ELSE t.data[p]]]

\* t[i] = src (i from 1): row i of t becomes src, expanded and converted to
\* the dtype of t
SetRow(t, i, src) ==
    LET n == Prod(RowShape(t)) IN
    [t EXCEPT !.data = [p \in 1..Prod(t.shape) |->
        IF ((p - 1) \div n) + 1 = i
        THEN ToFloat32(ExpandedAt(src, RowShape(t), ((p - 1) % n) + 1))
        ELSE t.data[p]]]

\* for i in range(batch_size): t[i] = ts[i], rows 1..i done
RECURSIVE FillRows(_, _, _)
FillRows(t, ts, i) == IF i = 0 THEN t ELSE SetRow(FillRows(t, ts, i - 1), i, ts[i])

Xs(batch) == [i \in 1..Len(batch) |-> batch[i].x]
Ys(batch) == [i \in 1..Len(batch) |-> batch[i].y]

\* The body shared by the two collate_fn once the batch tensors are allocated
CollateInto(input0, output0, batch) ==
    IF \A i \in 1..Len(batch) : /\ CanSetRow(input0, batch[i].x)
                                /\ CanSetRow(output0, batch[i].y)
    THEN [status |-> "ok",
          input |-> FillRows(input0, Xs(batch), Len(batch)),
          output |-> FillRows(output0, Ys(batch), Len(batch))]
    ELSE [status |-> "RuntimeError", input |-> NoTensor, output |-> NoTensor]

\* MotionDataset.collate_fn, for a non-empty batch of tensors of rank >= 1
MotionCollate(batch) ==
    CollateInto(Empty(<<Len(batch), batch[1].x.shape[1]>>),
                Empty(<<Len(batch), batch[1].y.shape[1]>>), batch)

\* SpeechMotionDataset.collate_fn, for a non-empty batch of tensors of rank
\* >= 1: x[0].size()[1] raises IndexError when x[0] has one dimension
SpeechCollate(batch) ==
    IF Len(batch[1].x.shape) < 2
    THEN [status |-> "IndexError", input |-> NoTensor, output |-> NoTensor]
    ELSE CollateInto(Empty(<<Len(batch), batch[1].x.shape[1], batch[1].x.shape[2]>>),
                     Empty(<<Len(batch), batch[1].y.shape[1]>>), batch)

collate_fn(ds, batch) ==
    IF ds = "MotionDataset" THEN MotionCollate(batch) ELSE SpeechCollate(batch)

\* Example tensors: float64 elements, pairwise different within a batch
\* (i: position in the batch; base: 0 for x, 1 for y).
Sample(i, base, sh) ==
    [shape |-> sh, data |-> [p \in 1..Prod(sh) |-> 2 * (100 * base + 10 * i + p) + 1]]

Dims == 1..MaxDim

\* The shapes __getitem__ of each dataset gives x: MotionDataset rows are
\* vectors, SpeechMotionDataset rows of X are matrices; y is a vector.
XShapes(ds) ==
    IF ds = "MotionDataset" THEN {<<a>> : a \in Dims}
    ELSE {<<a, b>> : a \in Dims, b \in Dims}
YShapes == {<<a>> : a \in Dims}

CollateInit ==
    /\ c_dataset \in {"MotionDataset", "SpeechMotionDataset"}
    /\ c_batch = <<>>
    /\ c_result = NoResult

\* One more example is handed to the batch
Fetch ==
    /\ c_result.status = "none"
    /\ Len(c_batch) < MaxBatchSize
    /\ \E xs \in XShapes(c_dataset), ys \in YShapes :
          c_batch' = Append(c_batch, [x |-> Sample(Len(c_batch) + 1, 0, xs),
                                      y |-> Sample(Len(c_batch) + 1, 1, ys)])
    /\ UNCHANGED <<c_dataset, c_result>>
    /\ UNCHANGED notCollate

\* collate_fn(batch) on the non-empty batch
Collate ==
    /\ c_result.status = "none"
    /\ Len(c_batch) >= 1
    /\ c_result' = collate_fn(c_dataset, c_batch)
    /\ UNCHANGED <<c_dataset, c_batch>>
    /\ UNCHANGED notCollate

CollateNext ==
    \/ Fetch
    \/ Collate

CollateStart == CollateInit /\ TrainerIdle /\ AdvIdle /\ DataIdle

SpecCollate == CollateStart /\ [][CollateNext]_vars

\* ------------------------------------------------------------ collate claims
\* Row i of the batch tensor t, as a tensor
RowOf(t, i) ==
    LET n == Prod(RowShape(t)) IN
    [shape |-> RowShape(t), data |-> [p \in 1..n |-> t.data[(i - 1) * n + p]]]

\* The example e as the batch tensor's dtype holds it
AsFloat32(e) == [shape |-> e.shape, data |-> [p \in 1..Len(e.data) |-> ToFloat32(e.data[p])]]

Batched ==
    /\ c_result.status = "ok"
    /\ c_result.input.shape[1] = Len(c_batch)
    /\ c_result.output.shape[1] = Len(c_batch)
    /\ \A i \in 1..Len(c_batch) :
          /\ RowOf(c_result.input, i) = AsFloat32(c_batch[i].x)
          /\ RowOf(c_result.output, i) = AsFloat32(c_batch[i].y)

SameShapes ==
    \A i \in 1..Len(c_batch) : /\ c_batch[i].x.shape = c_batch[1].x.shape
                               /\ c_batch[i].y.shape = c_batch[1].y.shape

LossScale == 100
W_CONT_LOSS == 1
W_ADV_LOSS == 1

\* calculate_loss, from base_loss(p, y) and the continuity norm of p
calculate_loss(base, cont) == LossScale * base + cont * W_CONT_LOSS

\* The terms the networks give for a batch: base_loss, cont_loss, adv_loss of
\* the prediction, real_loss and fake_loss of the discriminator
Terms == [base : 0..MaxTerm, cont : 0..MaxTerm, adv : 0..MaxTerm,
          real : 0..MaxTerm, fake : 0..MaxTerm]

\* A variant of training_step that adds the adversarial loss unweighted
training_step_unweighted(t, optimizer_idx) ==
    IF optimizer_idx = 0
    THEN [loss |-> LossScale * t.base + W_CONT_LOSS * t.cont + LossScale * t.adv,
          which |-> "generator",
          through |-> {"encoder", "decoder", "discriminator"}]
    ELSE [loss |-> (LossScale * t.real + LossScale * t.fake) \div 2,
          which |-> "discriminator",
          through |-> {"discriminator"}]

\* training_step for optimizer_idx 0 or 1: the loss returned, which branch
\* computed it, and the modules whose parameters the loss is computed through
\* (pred_poses.detach() cuts the encoder and the decoder off the
\* discriminator loss)
training_step(t, optimizer_idx) ==
    IF optimizer_idx = 0
    THEN [loss |-> LossScale * t.base + W_CONT_LOSS * t.cont + W_ADV_LOSS * t.adv,
          which |-> "generator",
          through |-> {"encoder", "decoder", "discriminator"}]
    ELSE [loss |-> (LossScale * t.real + LossScale * t.fake) \div 2,
          which |-> "discriminator",
          through |-> {"discriminator"}]

\* validation_step
validation_step(t) == calculate_loss(t.base, t.cont)

\* Variants of configure_optimizers: the list in the other order, and a
\* discriminator optimizer built over self.parameters()
configure_optimizers_swapped ==
    << [name |-> "opt_d", params |-> {"discriminator"}],
       [name |-> "opt_g", params |-> {"encoder", "decoder"}] >>
configure_optimizers_all ==
    << [name |-> "opt_g", params |-> {"encoder", "decoder"}],
       [name |-> "opt_d", params |-> Modules] >>

\* configure_optimizers: [opt_g, opt_d]
configure_optimizers ==
    << [name |-> "opt_g", params |-> {"encoder", "decoder"}],
       [name |-> "opt_d", params |-> {"discriminator"}] >>

OptNumber(name) == IF name = "opt_g" THEN 1 ELSE 2

AdvInit ==
    /\ a_batch_nb = 0
    /\ a_opt_idx = 0
    /\ a_params = [m \in Modules |-> 0]
    /\ a_grad = [m \in Modules |-> "None"]
    /\ a_step = NoStep
    /\ a_log = <<>>
    /\ a_updates = <<0, 0>>

\* One pass of the training loop for one optimizer of the list of
\* configure_optimizers, taken in list order for every batch: only the
\* parameters of that optimizer require grad, training_step(batch, batch_nb,
\* optimizer_idx), backward of the returned loss, optimizer.step() on the
\* parameters that have a grad, optimizer.zero_grad().
TrainingStep ==
    /\ a_batch_nb < MaxBatches
    /\ \E t \in Terms :
          LET opt == configure_optimizers[a_opt_idx + 1]
              out == training_step(t, a_opt_idx)
              grads == [m \in Modules |->
                           IF m \in opt.params /\ m \in out.through
                           THEN "set" ELSE a_grad[m]]
              stepped == {m \in opt.params : grads[m] # "None"}
          IN /\ a_step' = [kind |-> "training", optimizer_idx |-> a_opt_idx,
                           terms |-> t, loss |-> out.loss]
             /\ a_params' = [m \in Modules |->
                                IF m \in stepped THEN a_params[m] + 1 ELSE a_params[m]]
             /\ a_grad' = [m \in Modules |->
                              IF m \in opt.params /\ grads[m] # "None"
                              THEN "zero" ELSE grads[m]]
             /\ a_log' = Append(IF a_opt_idx = 0 THEN <<>> ELSE a_log,
                                [optimizer_idx |-> a_opt_idx, which |-> out.which,
                                 optimizer |-> opt.name])
             /\ a_updates' = [a_updates EXCEPT ![OptNumber(opt.name)] = @ + 1]
    /\ IF a_opt_idx + 1 < Len(configure_optimizers)
       THEN a_opt_idx' = a_opt_idx + 1 /\ UNCHANGED a_batch_nb
       ELSE a_opt_idx' = 0 /\ a_batch_nb' = a_batch_nb + 1
    /\ UNCHANGED notAdv

\* validation_step on a validation batch, between training batches
ValidationStep ==
    /\ a_opt_idx = 0
    /\ a_step.kind # "validation"
    /\ \E t \in Terms :
          a_step' = [kind |-> "validation", optimizer_idx |-> 0, terms |-> t,
                     loss |-> validation_step(t)]
    /\ UNCHANGED <<a_batch_nb, a_opt_idx, a_params, a_grad, a_log, a_updates>>
    /\ UNCHANGED notAdv

AdvNext ==
    \/ TrainingStep
    \/ ValidationStep

AdvStart == AdvInit /\ TrainerIdle /\ CollateIdle /\ DataIdle

SpecAdv == AdvStart /\ [][AdvNext]_vars

\* ---------------------------------------------------------- adversarial claims
Alternation ==
    << [optimizer_idx |-> 0, which |-> "generator", optimizer |-> "opt_g"],
       [optimizer_idx |-> 1, which |-> "discriminator", optimizer |-> "opt_d"] >>

\* C5: for every training batch training_step runs first with optimizer_idx 0
\* and returns the generator loss, then with optimizer_idx 1 and returns the
\* discriminator loss; each batch gives exactly one update by each of the two
\* optimizers of configure_optimizers, in the order [generator, discriminator].
C5_GeneratorThenDiscriminator ==
    /\ Len(a_log) <= 2
    /\ \A i \in 1..Len(a_log) : a_log[i] = Alternation[i]
    /\ Len(a_log) = (IF a_opt_idx = 1 THEN 1 ELSE IF a_batch_nb > 0 THEN 2 ELSE 0)
    /\ a_updates[1] = a_batch_nb + a_opt_idx
    /\ a_updates[2] = a_batch_nb

\* C5 witness: the second batch has been completed.
C5_Witness == a_batch_nb = 2 /\ a_opt_idx = 0 /\ a_step.kind = "training"

\* C6: a step of the discriminator optimizer leaves every encoder and decoder
\* parameter unchanged, a step of the generator optimizer leaves every
\* discriminator parameter unchanged, and the parameter sets of the two
\* optimizers are disjoint.
C6_StepFrame ==
    /\ a_updates'[2] # a_updates[2] =>
          /\ a_params'["encoder"] = a_params["encoder"]
          /\ a_params'["decoder"] = a_params["decoder"]
          /\ a_params'["discriminator"] # a_params["discriminator"]
    /\ a_updates'[1] # a_updates[1] =>
          /\ a_params'["discriminator"] = a_params["discriminator"]
          /\ a_params'["encoder"] # a_params["encoder"]
          /\ a_params'["decoder"] # a_params["decoder"]

C6_DisjointOptimizers ==
    configure_optimizers[1].params \cap configure_optimizers[2].params = {}

C6_DiscriminatorOnlyRegularizes ==
    /\ []C6_DisjointOptimizers
    /\ [][C6_StepFrame]_vars

\* C6 witness: both optimizers have stepped twice.
C6_Witness ==
    /\ a_params["encoder"] = 2
    /\ a_params["decoder"] = 2
    /\ a_params["discriminator"] = 2

\* C7: the loss of training_step for optimizer_idx 0 is calculate_loss(pred,
\* real) + w_adv_loss * adv_loss = base_loss + w_cont_loss * cont_loss +
\* w_adv_loss * adv_loss; for optimizer_idx 1 it is (real_loss + fake_loss) / 2;
\* the loss of validation_step is calculate_loss(pred, real).
C7_LossComposition ==
    LET t == a_step.terms IN
    /\ a_step.kind = "training" /\ a_step.optimizer_idx = 0 =>
          /\ a_step.loss = calculate_loss(t.base, t.cont) + W_ADV_LOSS * t.adv
          /\ a_step.loss = LossScale * t.base + W_CONT_LOSS * t.cont + W_ADV_LOSS * t.adv
    /\ a_step.kind = "training" /\ a_step.optimizer_idx = 1 =>
          2 * a_step.loss = LossScale * (t.real + t.fake)
    /\ a_step.kind = "validation" =>
          /\ a_step.loss = calculate_loss(t.base, t.cont)
          /\ a_step.loss = LossScale * t.base + W_CONT_LOSS * t.cont

\* C7 witness: a generator step in which every term of the loss is non-zero.
C7_Witness ==
    /\ a_step.kind = "training"
    /\ a_step.optimizer_idx = 0
    /\ a_step.terms.base > 0
    /\ a_step.terms.cont > 0
    /\ a_step.terms.adv > 0

\* ====================================== tools/datasets.py: SpeechMotionDataset
\* The rows 1..n of an array of file f
Rows(f, n) == [r \in 1..n |-> [file |-> f, row |-> r]]

\* np.concatenate of the arrays 1..k of the files: rows in file order
RECURSIVE ConcatX(_, _)
ConcatX(files, k) ==
    IF k = 0 THEN <<>> ELSE ConcatX(files, k - 1) \o Rows(k, files[k].nx)
RECURSIVE ConcatY(_, _)
ConcatY(files, k) ==
    IF k = 0 THEN <<>> ELSE ConcatY(files, k - 1) \o Rows(k, files[k].ny)

DataInit ==
    /\ d_files = <<>>
    /\ d_status = "none"
    /\ d_X = <<>>
    /\ d_Y = <<>>
    /\ d_item = NoItem

\* The caller lists one more data file, whose arrays X and Y have nx and ny rows
AddFile ==
    /\ d_status = "none"
    /\ Len(d_files) < MaxFiles
    /\ \E nx \in 1..MaxRows, ny \in 1..MaxRows :
          d_files' = Append(d_files, [nx |-> nx, ny |-> ny])
    /\ UNCHANGED <<d_status, d_X, d_Y, d_item>>
    /\ UNCHANGED notData

\* SpeechMotionDataset.__init__: np.concatenate raises ValueError on an empty
\* list; the assertion compares the total lengths
Construct ==
    /\ d_status = "none"
    /\ IF d_files = <<>>
       THEN /\ d_status' = "ValueError"
            /\ UNCHANGED <<d_X, d_Y>>
       ELSE /\ d_X' = ConcatX(d_files, Len(d_files))
            /\ d_Y' = ConcatY(d_files, Len(d_files))
            /\ d_status' = IF Len(d_X') = Len(d_Y') THEN "ok" ELSE "AssertionError"
    /\ UNCHANGED <<d_files, d_item>>
    /\ UNCHANGED notData

\* __getitem__(item) for an index below __len__ (item from 0)
GetItem ==
    /\ d_status = "ok"
    /\ \E item \in 0..(Len(d_X) - 1) :
          d_item' = [index |-> item, x |-> d_X[item + 1], y |-> d_Y[item + 1],
                     called |-> TRUE]
    /\ UNCHANGED <<d_files, d_status, d_X, d_Y>>
    /\ UNCHANGED notData

DataNext ==
    \/ AddFile
    \/ Construct
    \/ GetItem

DataStart == DataInit /\ TrainerIdle /\ CollateIdle /\ AdvIdle

SpecData == DataStart /\ [][DataNext]_vars

\* ------------------------------------------------------------- dataset claims
RECURSIVE TotalRows(_, _)
TotalRows(files, k) == IF k = 0 THEN 0 ELSE TotalRows(files, k - 1) + files[k].nx

\* C10 (as stated): whenever construction succeeds, __len__ is the total
\* number of rows over all files and __getitem__(i) returns an X row and a Y
\* row of the same file and the same row of that file, files in given order.
C10_RowsPaired ==
    /\ d_status = "ok" =>
          /\ Len(d_X) = TotalRows(d_files, Len(d_files))
          /\ \A i \in 1..(Len(d_X) - 1) : d_X[i].file <= d_X[i + 1].file
    /\ d_item.called => d_item.x = d_item.y

====
